---------------------------- MODULE Spec2Model ----------------------------
(***************************************************************************)
(* German Power Market Monitor dashboard: the two CSV loaders              *)
(* (load_generation_data, load_price_data), the header cleanup and the     *)
(* numeric normalisation they apply, and the two Dash callbacks            *)
(* (update_generation_graph, update_price_graph) that reload, filter by    *)
(* date and aggregate on every interaction.  The callbacks are modelled    *)
(* twice: as one step each (Spec), and statement by statement under a      *)
(* serial or threaded server (SpecReload, SpecHost).                       *)
(*                                                                         *)
(* Text is a sequence of one-character strings (headers use word tokens    *)
(* for runs of letters).  A float is a fixed-point integer, Scale units    *)
(* per 1.0, or NaN; a quotient is a reduced fraction of such integers.     *)
(***************************************************************************)
EXTENDS Integers, Sequences, FiniteSets, TLC

VARIABLES
    genFile,           \* content of Actual_generation_..._Day.csv
    priceFile,         \* content of Day-ahead_prices_..._Day.csv
    pc,                \* "boot" | "serving" | "crashed" (module-level code)
    initial_gen_df,    \* the startup load of the generation file
    initial_price_df,  \* the startup load of the price file
    tab,               \* value of the 'tabs' component
    request,           \* inputs of the latest callback invocation
    response,          \* what that invocation returned (or raised)
    loaded,            \* result of the latest direct loader call
    host,              \* "serial" | "threaded": how the server runs callbacks
    cycles,            \* the callback invocations in progress, oldest first
    shown,             \* the interaction whose outputs the tab displays
    interactions       \* number of interactions triggered so far

vars == <<genFile, priceFile, pc, initial_gen_df, initial_price_df, tab,
          request, response, loaded, host, cycles, shown, interactions>>

\* the state of the server's request handling
hostVars == <<host, cycles, shown, interactions>>

---------------------------------------------------------------------------
(* Bounds of the model *)

\* longest generated raw field, in characters
MaxFieldLen == 2
\* most data rows of a file given to the loaders directly
MaxRows == 2
\* days of the dashboard files (one row per day, days 1..NumDays)
NumDays == 3

---------------------------------------------------------------------------
(* Sequences and text *)

\* the one element of a singleton.  Only({ F(x) : x \in {e} }) is F(e) with
\* e evaluated once, as a local variable of the code is assigned once.
Only(S) == CHOOSE x \in S : TRUE

Range(s) == { s[i] : i \in 1..Len(s) }

Take(s, n) == SubSeq(s, 1, n)

Drop(s, n) == SubSeq(s, n + 1, Len(s))

Contains(s, c) == \E i \in 1..Len(s) : s[i] = c

\* Index of the first occurrence of the text pat in s, 0 when there is none.
Find(s, pat) ==
    LET hits == { i \in 1..(Len(s) - Len(pat) + 1) :
                    SubSeq(s, i, i + Len(pat) - 1) = pat }
    IN  IF hits = {} THEN 0 ELSE CHOOSE i \in hits : \A j \in hits : i <= j

\* Python str.replace(old, new) for a one-character old: every occurrence.
RECURSIVE StrReplace(_, _, _)
StrReplace(s, old, new) ==
    IF s = <<>> THEN <<>>
    ELSE (IF Head(s) = old THEN new ELSE <<Head(s)>>)
         \o StrReplace(Tail(s), old, new)

RECURSIVE Pow10(_)
Pow10(n) == IF n = 0 THEN 1 ELSE 10 * Pow10(n - 1)

Digits == {"0", "1", "2", "3", "4", "5", "6", "7", "8", "9"}

DigitVal(c) ==
    CASE c = "0" -> 0 [] c = "1" -> 1 [] c = "2" -> 2 [] c = "3" -> 3
      [] c = "4" -> 4 [] c = "5" -> 5 [] c = "6" -> 6 [] c = "7" -> 7
      [] c = "8" -> 8 [] c = "9" -> 9

RECURSIVE DigitsVal(_)
DigitsVal(s) ==
    IF s = <<>> THEN 0
    ELSE DigitsVal(Take(s, Len(s) - 1)) * 10 + DigitVal(s[Len(s)])

---------------------------------------------------------------------------
(* Raw fields the files are drawn from *)

\* characters of generated fields: a digit, the comma, the marker
Alphabet == {"1", ",", "-"}

RECURSIVE Texts(_)
Texts(n) ==
    IF n = 0 THEN { <<>> }
    ELSE LET shorter == Texts(n - 1)
         IN  shorter \cup { Append(t, c) : t \in shorter, c \in Alphabet }

\* longer fields: a point, a comma, a sign, two commas, a plain decimal
ExampleFields ==
    { <<"1", ".", "2", "3", "4">>, <<"1", ",", "2", "3", "4">>,
      <<"4", "5", ",", "6", "7">>, <<"-", "5", ",", "3">>,
      <<"1", ",", "2", ",", "3">>, <<"1", ".", "5">> }

\* every text over Alphabet up to MaxFieldLen (the empty field included)
Fields == Texts(MaxFieldLen) \cup ExampleFields

MaxOf(S) == CHOOSE x \in S : \A y \in S : y <= x

MinOf(S) == CHOOSE x \in S : \A y \in S : x <= y

\* fraction digits a float of the model carries
FracDigits == MaxOf({ Len(f) : f \in Fields })

Scale == Pow10(FracDigits)

---------------------------------------------------------------------------
(* Values of a DataFrame cell *)

Str(s) == [kind |-> "str", s |-> s, v |-> 0]

Float(v) == [kind |-> "float", s |-> <<>>, v |-> v]

Int64(v) == [kind |-> "int", s |-> <<>>, v |-> v]

NaN == [kind |-> "nan", s |-> <<>>, v |-> 0]

\* isinstance(x, float): numpy float64 values, NaN among them
IsFloat(c) == c.kind \in {"float", "nan"}

---------------------------------------------------------------------------
(* Text to number *)

\* What float() (and the CSV parser's number recognition) accepts among
\* texts over digits, '.', ',' and '-': an optional sign, digits with at
\* most one point, at least one digit.
ValidFloat(s) ==
    LET body == IF s # <<>> /\ s[1] = "-" THEN Tail(s) ELSE s
    IN  /\ Range(body) \subseteq Digits \cup {"."}
        /\ Cardinality({ i \in 1..Len(body) : body[i] = "." }) <= 1
        /\ \E i \in 1..Len(body) : body[i] \in Digits

ValidInt(s) ==
    LET body == IF s # <<>> /\ s[1] = "-" THEN Tail(s) ELSE s
    IN  body # <<>> /\ Range(body) \subseteq Digits

\* float(s) for a text ValidFloat accepts, in units of 1/Scale
ToFloat(s) ==
    LET neg  == s[1] = "-"
        body == IF neg THEN Tail(s) ELSE s
        dot  == Find(body, <<".">>)
        ip   == IF dot = 0 THEN body ELSE Take(body, dot - 1)
        fp   == IF dot = 0 THEN <<>> ELSE Drop(body, dot)
        mag  == DigitsVal(ip) * Scale
                  + DigitsVal(fp) * Pow10(FracDigits - Len(fp))
    IN  IF neg THEN 0 - mag ELSE mag


---------------------------------------------------------------------------
(* The CSV files and pd.read_csv *)

\* A file: whether its header has the two date columns, the day of each
\* row's 'Start date', and the other columns, each a header and one raw
\* field per row.
RawColumn(header, data) == [header |-> header, data |-> data]

File(hasStart, hasEnd, days, cols) ==
    [hasStart |-> hasStart, hasEnd |-> hasEnd, days |-> days, cols |-> cols]

Column(name, dtype, data) == [name |-> name, dtype |-> dtype, data |-> data]

\* pd.read_csv's type inference for one column: int64 when every field is
\* an integer, float64 when every field is a number or empty (empty reads
\* as NaN), otherwise object, holding each field's text (NaN where empty).
\* A column without rows is object.
ReadCsvColumn(raw) ==
    LET d == raw.data
        n == Len(d)
    IN  IF n > 0 /\ \A i \in 1..n : ValidInt(d[i])
        THEN Column(raw.header, "int64",
                    [i \in 1..n |-> Int64(ToFloat(d[i]))])
        ELSE IF n > 0 /\ \A i \in 1..n : d[i] = <<>> \/ ValidFloat(d[i])
        THEN Column(raw.header, "float64",
                    [i \in 1..n |-> IF d[i] = <<>> THEN NaN
                                    ELSE Float(ToFloat(d[i]))])
        ELSE Column(raw.header, "object",
                    [i \in 1..n |-> IF d[i] = <<>> THEN NaN ELSE Str(d[i])])

DataFrame(hasStart, hasEnd, start, cols) ==
    [hasStart |-> hasStart, hasEnd |-> hasEnd, start |-> start, cols |-> cols]

ReadCsv(file) ==
    DataFrame(file.hasStart, file.hasEnd, file.days,
              [k \in 1..Len(file.cols) |-> ReadCsvColumn(file.cols[k])])

---------------------------------------------------------------------------
(* Results: a value, or the exception raised *)

Ok(x) == [ok |-> TRUE, err |-> "", val |-> x]

Raise(e) == [ok |-> FALSE, err |-> e, val |-> <<>>]

---------------------------------------------------------------------------
(* Header cleanup *)

\* col.split(' [')[0] if '[' in col else col
CleanHeader(col) ==
    IF Contains(col, "[")
    THEN LET at == Find(col, <<" ", "[">>)
         IN  IF at = 0 THEN col ELSE Take(col, at - 1)
    ELSE col

\* df.columns = [... for col in df.columns]; the date headers hold no '['
CleanColumns(df) ==
    [df EXCEPT !.cols =
        [k \in 1..Len(df.cols) |->
            [df.cols[k] EXCEPT !.name = CleanHeader(df.cols[k].name)]]]

---------------------------------------------------------------------------
(* Numeric normalisation of one column *)

Marker == <<"-">>

\* Series.replace('-', '0') on one value: a whole-value match
ReplaceMarkerCell(c) ==
    IF c = Str(Marker) THEN Str(<<"0">>) ELSE c

ReplaceMarker(col) ==
    [col EXCEPT !.data = [i \in 1..Len(col.data) |-> ReplaceMarkerCell(col.data[i])]]

\* Series.str.replace(old, new): on each text, NaN where the value is NaN
StrReplaceSeries(col, old, new) ==
    [col EXCEPT !.data =
        [i \in 1..Len(col.data) |->
            IF col.data[i].kind = "str"
            THEN Str(StrReplace(col.data[i].s, old, new))
            ELSE NaN]]

\* the comma read as a decimal separator, as the price loader reads it
StripThousands_AsDecimal(col) == StrReplaceSeries(col, ",", <<".">>)

\* df[col].str.replace(',', '') of the generation loader
StripThousands(col) == StrReplaceSeries(col, ",", <<>>)

\* df[col].str.replace(',', '.') of the price loader
DecimalPoint(col) == StrReplaceSeries(col, ",", <<".">>)

\* Series.astype(float) of an object column of texts and NaN
AsTypeFloat(col) ==
    IF \E i \in 1..Len(col.data) :
           col.data[i].kind = "str" /\ ~ValidFloat(col.data[i].s)
    THEN Raise("ValueError")
    ELSE Ok(Column(col.name, "float64",
                   [i \in 1..Len(col.data) |->
                       IF col.data[i].kind = "str"
                       THEN Float(ToFloat(col.data[i].s))
                       ELSE NaN]))

\* body of the loop of load_generation_data
GenerationColumn(col) ==
    LET c1 == ReplaceMarker(col)
    IN  IF c1.dtype # "object" THEN Raise("AttributeError")
        ELSE AsTypeFloat(StripThousands(c1))

\* isinstance(df[col].iloc[0], str)
FirstIsStr(col) == col.data[1].kind = "str"

\* body of the loop of load_price_data
PriceColumn(col) ==
    LET c1 == ReplaceMarker(col)
    IN  IF Len(c1.data) = 0 THEN Raise("IndexError")
        ELSE IF FirstIsStr(c1)
             THEN AsTypeFloat(DecimalPoint(c1))
             ELSE Ok(c1)

---------------------------------------------------------------------------
(* The loaders *)

\* for col in numeric_columns: the columns in turn, stopping at the first
\* exception (the files' headers are in the order Index.difference sorts
\* them into)
FirstFailure(rs) ==
    LET bad == { k \in 1..Len(rs) : ~rs[k].ok }
    IN  IF bad = {} THEN 0 ELSE CHOOSE k \in bad : \A j \in bad : k <= j

ConvertColumns(rs) ==
    IF FirstFailure(rs) = 0
    THEN Ok([k \in 1..Len(rs) |-> rs[k].val])
    ELSE rs[FirstFailure(rs)]

load_generation_data(file) ==
    LET df == ReadCsv(file)
    IN  IF ~df.hasStart THEN Raise("KeyError")
        ELSE LET cleaned == CleanColumns(df)
                 r == ConvertColumns([k \in 1..Len(cleaned.cols) |->
                                         GenerationColumn(cleaned.cols[k])])
             IN  IF ~r.ok THEN r
                 ELSE Ok([cleaned EXCEPT !.cols = r.val])

load_price_data(file) ==
    LET df == ReadCsv(file)
    IN  IF ~df.hasStart THEN Raise("KeyError")
        ELSE LET cleaned == CleanColumns(df)
                 r == ConvertColumns([k \in 1..Len(cleaned.cols) |->
                                         PriceColumn(cleaned.cols[k])])
             IN  IF ~r.ok THEN r
                 ELSE Ok([cleaned EXCEPT !.cols = r.val])

---------------------------------------------------------------------------
(* Series reductions *)

\* the values a reduction sees: pandas skips NaN (skipna=True)
RECURSIVE NotNaN(_)
NotNaN(cells) ==
    IF cells = <<>> THEN <<>>
    ELSE (IF Head(cells).kind = "nan" THEN <<>> ELSE <<Head(cells)>>)
         \o NotNaN(Tail(cells))

HasText(cells) == \E i \in 1..Len(cells) : cells[i].kind = "str"

RECURSIVE Total(_)
Total(cells) == IF cells = <<>> THEN 0 ELSE Head(cells).v + Total(Tail(cells))

Abs(x) == IF x < 0 THEN 0 - x ELSE x

RECURSIVE Gcd(_, _)
Gcd(a, b) == IF b = 0 THEN a ELSE Gcd(b, a % b)

\* the quotient n / d (d > 0) as a reduced fraction
Ratio(n, d) ==
    LET g == Gcd(Abs(n), d)
    IN  [kind |-> "ratio", n |-> n \div g, d |-> d \div g]

\* the sum started from the second value
SeriesSum_SkipsFirst(cells) ==
    IF HasText(cells) THEN Raise("TypeError")
    ELSE Ok(Float(Total(NotNaN(IF cells = <<>> THEN cells ELSE Tail(cells)))))

\* float(Series.sum()): 0.0 for no values
SeriesSum(cells) ==
    IF HasText(cells) THEN Raise("TypeError")
    ELSE Ok(Float(Total(NotNaN(cells))))

\* float(Series.mean()): the sum over the count, NaN for no values
SeriesMean(cells) ==
    IF HasText(cells) THEN Raise("TypeError")
    ELSE LET xs == NotNaN(cells)
         IN  Ok(IF xs = <<>> THEN NaN ELSE Ratio(Total(xs), Len(xs)))

\* the last value taken for the largest
SeriesMax_Last(cells) ==
    IF HasText(cells) THEN Raise("TypeError")
    ELSE LET xs == NotNaN(cells)
         IN  Ok(IF xs = <<>> THEN NaN ELSE Float(xs[Len(xs)].v))

\* float(Series.max()): NaN for no values
SeriesMax(cells) ==
    IF HasText(cells) THEN Raise("TypeError")
    ELSE LET xs == NotNaN(cells)
         IN  Ok(IF xs = <<>> THEN NaN
                ELSE Float(CHOOSE m \in { xs[i].v : i \in 1..Len(xs) } :
                             \A i \in 1..Len(xs) : xs[i].v <= m))

\* float(Series.min()): NaN for no values
SeriesMin(cells) ==
    IF HasText(cells) THEN Raise("TypeError")
    ELSE LET xs == NotNaN(cells)
         IN  Ok(IF xs = <<>> THEN NaN
                ELSE Float(CHOOSE m \in { xs[i].v : i \in 1..Len(xs) } :
                             \A i \in 1..Len(xs) : m <= xs[i].v))

---------------------------------------------------------------------------
(* Date filtering *)

\* the end date taken as exclusive
DateMask_ExclusiveEnd(df, start_date, end_date) ==
    [i \in 1..Len(df.start) |->
        df.start[i] >= start_date /\ df.start[i] < end_date]

\* (df['Start date'] >= start_date) & (df['Start date'] <= end_date)
DateMask(df, start_date, end_date) ==
    [i \in 1..Len(df.start) |->
        df.start[i] >= start_date /\ df.start[i] <= end_date]

\* positions a boolean mask keeps, in order
RECURSIVE Kept(_, _)
Kept(mask, i) ==
    IF i > Len(mask) THEN <<>>
    ELSE (IF mask[i] THEN <<i>> ELSE <<>>) \o Kept(mask, i + 1)

\* df.loc[mask]
\* the rows at the positions idx
TakeRows(df, idx) ==
    [df EXCEPT
       !.start = [j \in 1..Len(idx) |-> df.start[idx[j]]],
       !.cols  = [k \in 1..Len(df.cols) |->
                    [df.cols[k] EXCEPT
                       !.data = [j \in 1..Len(idx) |-> @[idx[j]]]]]]

Loc(df, mask) == Only({ TakeRows(df, idx) : idx \in { Kept(mask, 1) } })

\* position of the column called name, 0 when there is none (a KeyError)
ColumnIndex(df, name) ==
    LET ks == { k \in 1..Len(df.cols) : df.cols[k].name = name }
    IN  IF ks = {} THEN 0 ELSE CHOOSE k \in ks : \A j \in ks : k <= j

HasColumns(df, names) ==
    \A j \in 1..Len(names) : ColumnIndex(df, names[j]) # 0

\* df[name] for a column that exists
Series(df, name) == df.cols[ColumnIndex(df, name)].data

\* go.Scatter(x=df_filtered['Start date'], y=df_filtered[name], name=name)
Scatter(df_filtered, name) ==
    [name |-> name, x |-> df_filtered.start, y |-> Series(df_filtered, name)]

Figure(df_filtered, selected) ==
    [j \in 1..Len(selected) |-> Scatter(df_filtered, selected[j])]

---------------------------------------------------------------------------
(* The callbacks *)

\* keys of the colors dictionary (two of the twelve sources)
Colors == << <<"Nuclear">>, <<"Wind onshore">> >>

\* one card of the generation summary: the source and its total
GenerationStat(df_filtered, source) ==
    LET total_generation == SeriesSum(Series(df_filtered, source))
    IN  IF ~total_generation.ok THEN total_generation
        ELSE Ok([name |-> source, total |-> total_generation.val])

\* one card of the price statistics: the country, average, max and min
PriceStat(df_filtered, country) ==
    LET avg_price == SeriesMean(Series(df_filtered, country))
        max_price == SeriesMax(Series(df_filtered, country))
        min_price == SeriesMin(Series(df_filtered, country))
    IN  IF ~avg_price.ok THEN avg_price
        ELSE Ok([name |-> country, avg |-> avg_price.val,
                 max |-> max_price.val, min |-> min_price.val])

\* what a callback returns, with the tables it loaded and filtered
Outputs(df, df_filtered, fig, stats) ==
    IF FirstFailure(stats) # 0 THEN stats[FirstFailure(stats)]
    ELSE Ok([df |-> df, df_filtered |-> df_filtered, fig |-> fig,
             stats |-> [j \in 1..Len(stats) |-> stats[j].val]])

\* the summary computed from the whole table
GenerationGraph_SummaryOfAll(df, df_filtered, selected_sources) ==
    IF ~HasColumns(df, selected_sources) THEN Raise("KeyError")
    ELSE Only({ Outputs(df, df_filtered,
                        Figure(df_filtered, selected_sources), stats) :
                stats \in { [j \in 1..Len(selected_sources) |->
                               GenerationStat(df, selected_sources[j])] } })

\* update_generation_graph from the filtered table on: the chart, then the
\* summary
GenerationGraph(df, df_filtered, selected_sources) ==
    IF ~HasColumns(df, selected_sources) THEN Raise("KeyError")
    ELSE Only({ Outputs(df, df_filtered,
                        Figure(df_filtered, selected_sources), stats) :
                stats \in { [j \in 1..Len(selected_sources) |->
                               GenerationStat(df_filtered,
                                              selected_sources[j])] } })

\* update_price_graph from the filtered table on: the chart, then the
\* statistics
PriceGraph(df, df_filtered, selected_countries) ==
    IF ~HasColumns(df, selected_countries) THEN Raise("KeyError")
    ELSE Only({ Outputs(df, df_filtered,
                        Figure(df_filtered, selected_countries), stats) :
                stats \in { [j \in 1..Len(selected_countries) |->
                               PriceStat(df_filtered,
                                         selected_countries[j])] } })

\* df_filtered = df.loc[mask] of a loaded table, then the rest
Filtered(r, start_date, end_date) ==
    { Loc(r.val, mask) : mask \in { DateMask(r.val, start_date, end_date) } }

update_generation_graph(file, selected_sources, start_date, end_date) ==
    Only({ IF ~r.ok THEN r
           ELSE Only({ GenerationGraph(r.val, df_filtered, selected_sources) :
                       df_filtered \in Filtered(r, start_date, end_date) }) :
           r \in { load_generation_data(file) } })

update_price_graph(file, selected_countries, start_date, end_date) ==
    Only({ IF ~r.ok THEN r
           ELSE Only({ PriceGraph(r.val, df_filtered, selected_countries) :
                       df_filtered \in Filtered(r, start_date, end_date) }) :
           r \in { load_price_data(file) } })

---------------------------------------------------------------------------
(* Direct calls of the loaders on arbitrary files *)

UnitHeader == <<"Biomass", " ", "[", "MWh", "]">>

\* headers with and without a bracketed suffix, with no, one and two
\* spaces before the bracket, and with two brackets
Headers ==
    { UnitHeader,
      <<"Biomass">>,
      <<"Biomass", "[", "MWh", "]">>,
      <<"Biomass", " ", " ", "[", "MWh", "]">>,
      <<"Biomass", " ", "[", "MWh", "]", " ", "Calculated">>,
      <<"Biomass", "[", "MWh", "]", " ", "[", "Day", "]">> }

RECURSIVE RawColumns(_)
RawColumns(n) ==
    IF n = 0 THEN { <<>> }
    ELSE LET shorter == RawColumns(n - 1)
         IN  shorter \cup { Append(d, f) : d \in shorter, f \in Fields }

DaysOf(n) == [i \in 1..n |-> i]

\* one column of every content under the usual header, and every header and
\* every presence of the date columns over a one-row column
LoadFiles ==
    { File(TRUE, TRUE, DaysOf(Len(d)), <<RawColumn(UnitHeader, d)>>) :
        d \in RawColumns(MaxRows) }
    \cup
    { File(hs, he, DaysOf(1), <<RawColumn(h, << <<"1", ",", "1">> >>)>>) :
        hs \in BOOLEAN, he \in BOOLEAN, h \in Headers }

NoCall == [fn |-> "none", res |-> Raise("")]

NoRequest == [fn |-> "none", selected |-> <<>>, start_date |-> 0, end_date |-> 0]

NoResponse == Raise("")

\* nothing displayed yet
NoShown ==
    [id |-> 0, fn |-> "none", selected |-> <<>>, start_date |-> 0,
     end_date |-> 0, file |-> <<>>]

\* no interaction so far
HostIdle ==
    /\ host = "serial"
    /\ cycles = <<>>
    /\ shown = NoShown
    /\ interactions = 0

InitLoad ==
    /\ \E f \in LoadFiles : genFile = f /\ priceFile = f
    /\ pc = "boot"
    /\ initial_gen_df = Raise("")
    /\ initial_price_df = Raise("")
    /\ tab = "tab-1"
    /\ request = NoRequest
    /\ response = NoResponse
    /\ loaded = NoCall
    /\ HostIdle

CallLoadGeneration ==
    /\ loaded' = [fn |-> "load_generation_data",
                  res |-> load_generation_data(genFile)]
    /\ UNCHANGED <<genFile, priceFile, pc, initial_gen_df, initial_price_df,
                   tab, request, response>>
    /\ UNCHANGED hostVars

CallLoadPrice ==
    /\ loaded' = [fn |-> "load_price_data", res |-> load_price_data(priceFile)]
    /\ UNCHANGED <<genFile, priceFile, pc, initial_gen_df, initial_price_df,
                   tab, request, response>>
    /\ UNCHANGED hostVars

NextLoad == CallLoadGeneration \/ CallLoadPrice

SpecLoad == InitLoad /\ [][NextLoad]_vars

\* the file the latest direct call read
LoadedFile == IF loaded.fn = "load_generation_data" THEN genFile ELSE priceFile

Returned == loaded.fn # "none" /\ loaded.res.ok

\* the cells of the returned table, with the raw field each was read from
LoadedCells ==
    { [k |-> k, i |-> i] :
        k \in 1..Len(LoadedFile.cols), i \in 1..Len(LoadedFile.days) }

RawOf(p) == LoadedFile.cols[p.k].data[p.i]

CellOf(p) == loaded.res.val.cols[p.k].data[p.i]

---------------------------------------------------------------------------
(* The dashboard: startup, tab rendering and the two callbacks *)

\* price columns of the file (two of the markets)
Countries == << <<"France">>, <<"Germany/Luxembourg">> >>

GenerationHeader(name) ==
    name \o <<" ", "[", "MWh", "]", " ", "Calculated resolutions">>

PriceHeader(name) ==
    name \o <<" ", "[", "EUR/MWh", "]", " ", "Original resolutions">>

\* a column of NumDays fields repeating the pattern
Cycle(pattern) ==
    [i \in 1..NumDays |-> pattern[((i - 1) % Len(pattern)) + 1]]

\* generation columns: grouped thousands, the marker and plain numbers; the
\* last holds plain integers only
GenerationPatterns ==
    { << <<"1", ",", "2", "3", "4">>, <<"-">>, <<"1", "1">> >>,
      << <<"1">>, <<"1", ",", "1">>, <<"-">> >>,
      << <<"1", "1">> >> }

\* price columns: plain integers, and decimal commas with a negative price
\* and the marker
PricePatterns ==
    { << <<"1", "0">>, <<"2", "0">>, <<"3", "0">> >>,
      << <<"4", "5", ",", "6", "7">>, <<"-", "5", ",", "3">>, <<"-">> >> }

GenerationFiles ==
    { File(TRUE, TRUE, DaysOf(NumDays),
           << RawColumn(GenerationHeader(Colors[1]), Cycle(a)),
              RawColumn(GenerationHeader(Colors[2]), Cycle(b)) >>) :
        a \in GenerationPatterns, b \in GenerationPatterns }

PriceFiles ==
    { File(TRUE, TRUE, DaysOf(NumDays),
           << RawColumn(PriceHeader(Countries[1]), Cycle(a)),
              RawColumn(PriceHeader(Countries[2]), Cycle(b)) >>) :
        a \in PricePatterns, b \in PricePatterns }

\* dates a picker can send: the loaded days and one day either side
Dates == 0..(NumDays + 1)

\* values of a multi-select over two options: every list without repeats
Selections(options) ==
    { <<>> } \cup { <<options[i]>> : i \in 1..Len(options) }
    \cup { <<options[q[1]], options[q[2]]>> :
             q \in { r \in (1..Len(options)) \X (1..Len(options)) :
                       r[1] # r[2] } }

ColumnNames(df) == [k \in 1..Len(df.cols) |-> df.cols[k].name]

Init ==
    /\ genFile \in GenerationFiles
    /\ priceFile \in PriceFiles
    /\ pc = "boot"
    /\ initial_gen_df = Raise("")
    /\ initial_price_df = Raise("")
    /\ tab = "tab-1"
    /\ request = NoRequest
    /\ response = NoResponse
    /\ loaded = NoCall
    /\ HostIdle

\* module level: the two initial loads; an exception ends the program
Boot ==
    /\ pc = "boot"
    /\ LET g == load_generation_data(genFile)
           p == load_price_data(priceFile)
       IN  /\ initial_gen_df' = g
           /\ initial_price_df' = IF g.ok THEN p ELSE initial_price_df
           /\ pc' = IF g.ok /\ p.ok THEN "serving" ELSE "crashed"
    /\ UNCHANGED <<genFile, priceFile, tab, request, response, loaded>>
    /\ UNCHANGED hostVars

\* the values the components of a tab are built with
Defaults(t) ==
    IF t = "tab-1"
    THEN [fn |-> "update_generation_graph", selected |-> Colors,
          start_date |-> MinOf(Range(initial_gen_df.val.start)),
          end_date |-> MaxOf(Range(initial_gen_df.val.start))]
    ELSE [fn |-> "update_price_graph", selected |-> <<Countries[2]>>,
          start_date |-> MinOf(Range(initial_price_df.val.start)),
          end_date |-> MaxOf(Range(initial_price_df.val.start))]

\* render_content(tab): the tab's components are built anew, with their
\* initial values and nothing drawn yet
RenderContent ==
    /\ pc = "serving"
    /\ \E t \in {"tab-1", "tab-2"} :
          /\ tab' = t
          /\ request' = Defaults(t)
    /\ response' = NoResponse
    /\ UNCHANGED <<genFile, priceFile, pc, initial_gen_df, initial_price_df,
                   loaded>>
    /\ UNCHANGED hostVars

\* the inputs after the user changed at most one component of the tab
Changed(options) ==
    { request }
    \cup { [request EXCEPT !.selected = x] : x \in Selections(options) }
    \cup { [request EXCEPT !.start_date = d] : d \in Dates }
    \cup { [request EXCEPT !.end_date = d] : d \in Dates }

\* the callback of the generation tab, run on its current inputs
UpdateGenerationGraph ==
    /\ pc = "serving"
    /\ request.fn = "update_generation_graph"
    /\ \E r \in Changed(Colors) :
          /\ request' = r
          /\ response' = update_generation_graph(genFile, r.selected,
                                                 r.start_date, r.end_date)
    /\ UNCHANGED <<genFile, priceFile, pc, initial_gen_df, initial_price_df,
                   tab, loaded>>
    /\ UNCHANGED hostVars

\* the callback of the price tab, run on its current inputs; the options of
\* the country selector are the columns of the startup load
UpdatePriceGraph ==
    /\ pc = "serving"
    /\ request.fn = "update_price_graph"
    /\ \E r \in Changed(ColumnNames(initial_price_df.val)) :
          /\ request' = r
          /\ response' = update_price_graph(priceFile, r.selected,
                                            r.start_date, r.end_date)
    /\ UNCHANGED <<genFile, priceFile, pc, initial_gen_df, initial_price_df,
                   tab, loaded>>
    /\ UNCHANGED hostVars

Next == Boot \/ RenderContent \/ UpdateGenerationGraph \/ UpdatePriceGraph

Spec == Init /\ [][Next]_vars

---------------------------------------------------------------------------
(* The callbacks run by the server, statement by statement *)

\* most interactions of one run
MaxInteractions == 2

\* the files the server starts with
FirstGenerationFile ==
    File(TRUE, TRUE, DaysOf(NumDays),
         << RawColumn(GenerationHeader(Colors[1]),
                      Cycle(<< <<"1", ",", "2", "3", "4">>, <<"-">>,
                               <<"1", "1">> >>)),
            RawColumn(GenerationHeader(Colors[2]),
                      Cycle(<< <<"1">>, <<"1", ",", "1">>, <<"-">> >>)) >>)

FirstPriceFile ==
    File(TRUE, TRUE, DaysOf(NumDays),
         << RawColumn(PriceHeader(Countries[1]),
                      Cycle(<< <<"1", "0">>, <<"2", "0">>, <<"3", "0">> >>)),
            RawColumn(PriceHeader(Countries[2]),
                      Cycle(<< <<"4", "5", ",", "6", "7">>,
                               <<"-", "5", ",", "3">>, <<"-">> >>)) >>)

\* the export of the following day: every row a day later, the values of
\* the two columns exchanged
NextDayExport(file) ==
    [file EXCEPT
       !.days = [i \in 1..Len(file.days) |-> file.days[i] + 1],
       !.cols = << [file.cols[1] EXCEPT !.data = file.cols[2].data],
                   [file.cols[2] EXCEPT !.data = file.cols[1].data] >>]

\* an export whose first column holds plain integers only
IntegerExport(file) ==
    [file EXCEPT !.cols[1].data = Cycle(<< <<"1", "1">> >>)]

\* contents the files on disk can take while the server runs
GenerationExports ==
    { FirstGenerationFile, NextDayExport(FirstGenerationFile),
      IntegerExport(FirstGenerationFile) }

PriceExports == { FirstPriceFile, NextDayExport(FirstPriceFile) }

\* one invocation of a callback: the interaction it answers, its inputs, the
\* statement it is at, the file content its load read, and its local
\* variables df, df_filtered and the (fig, stats) pair
Invocation(id, r) ==
    [id |-> id, fn |-> r.fn, selected |-> r.selected,
     start_date |-> r.start_date, end_date |-> r.end_date,
     pos |-> "load", file |-> <<>>, df |-> NoResponse,
     df_filtered |-> <<>>, out |-> NoResponse]

Without(seq, i) == SubSeq(seq, 1, i - 1) \o SubSeq(seq, i + 1, Len(seq))

\* the options of the tab's multi-select
Options ==
    IF request.fn = "update_generation_graph" THEN Colors
    ELSE ColumnNames(initial_price_df.val)

\* the inputs after an interaction: the callback fired on the inputs as they
\* are, the first option selected alone, the start date moved a day later
\* or the end date a day earlier
Interactions ==
    { request, [request EXCEPT !.selected = <<Options[1]>>] }
    \cup { [request EXCEPT !.start_date = d] :
             d \in { request.start_date + 1 } \cap Dates }
    \cup { [request EXCEPT !.end_date = d] :
             d \in { request.end_date - 1 } \cap Dates }

\* the table the callback about to be taken loads and filters
\* (the startup table)
CycleTable_Startup(fn) ==
    IF fn = "update_generation_graph" THEN initial_gen_df
    ELSE initial_price_df

\* df = load_generation_data() / df = load_price_data()
CycleTable(fn) ==
    IF fn = "update_generation_graph" THEN load_generation_data(genFile)
    ELSE load_price_data(priceFile)

\* the file a callback reads
CycleFile(fn) ==
    IF fn = "update_generation_graph" THEN genFile ELSE priceFile

\* the chart and the summary made of the filtered table
CycleOutputs(c) ==
    IF c.fn = "update_generation_graph"
    THEN GenerationGraph(c.df.val, c.df_filtered, c.selected)
    ELSE PriceGraph(c.df.val, c.df_filtered, c.selected)

\* the server starts with the first files
InitHost ==
    /\ genFile = FirstGenerationFile
    /\ priceFile = FirstPriceFile
    /\ pc = "boot"
    /\ initial_gen_df = Raise("")
    /\ initial_price_df = Raise("")
    /\ tab = "tab-1"
    /\ request = NoRequest
    /\ response = NoResponse
    /\ loaded = NoCall
    /\ host \in {"serial", "threaded"}
    /\ cycles = <<>>
    /\ shown = NoShown
    /\ interactions = 0

\* render_content(tab) before the first interaction
OpenTab ==
    /\ pc = "serving"
    /\ interactions = 0
    /\ \E t \in {"tab-1", "tab-2"} :
          /\ tab' = t
          /\ request' = Defaults(t)
    /\ response' = NoResponse
    /\ UNCHANGED <<genFile, priceFile, pc, initial_gen_df, initial_price_df,
                   loaded>>
    /\ UNCHANGED hostVars

\* an interaction with the tab's components triggers the callback; a serial
\* server starts it once the invocation in progress has returned
Interact ==
    /\ pc = "serving"
    /\ request.fn # "none"
    /\ interactions < MaxInteractions
    /\ host = "serial" => cycles = <<>>
    /\ \E r \in Interactions :
          /\ request' = r
          /\ cycles' = Append(cycles, Invocation(interactions + 1, r))
    /\ interactions' = interactions + 1
    /\ UNCHANGED <<genFile, priceFile, pc, initial_gen_df, initial_price_df,
                   tab, response, loaded, host, shown>>

\* df = load_...(): the file is read as it is now; an exception ends the
\* invocation and leaves the displayed outputs as they are
Load(i) ==
    /\ cycles[i].pos = "load"
    /\ LET df == CycleTable(cycles[i].fn)
       IN  IF df.ok
           THEN /\ cycles' = [cycles EXCEPT
                                ![i].pos = "filter",
                                ![i].file = CycleFile(cycles[i].fn),
                                ![i].df = df]
                /\ UNCHANGED response
           ELSE /\ cycles' = Without(cycles, i)
                /\ response' = df
    /\ UNCHANGED <<genFile, priceFile, pc, initial_gen_df, initial_price_df,
                   tab, request, loaded, host, shown, interactions>>

LoadStep == \E i \in 1..Len(cycles) : Load(i)

\* mask = ...; df_filtered = df.loc[mask]
Filter(i) ==
    /\ cycles[i].pos = "filter"
    /\ cycles' = [cycles EXCEPT
                    ![i].pos = "aggregate",
                    ![i].df_filtered =
                        Only(Filtered(cycles[i].df, cycles[i].start_date,
                                      cycles[i].end_date))]
    /\ UNCHANGED <<genFile, priceFile, pc, initial_gen_df, initial_price_df,
                   tab, request, response, loaded, host, shown, interactions>>

FilterStep == \E i \in 1..Len(cycles) : Filter(i)

\* the traces of the chart, then the statistics of the summary
Aggregate(i) ==
    /\ cycles[i].pos = "aggregate"
    /\ LET out == CycleOutputs(cycles[i])
       IN  IF out.ok
           THEN /\ cycles' = [cycles EXCEPT ![i].pos = "return",
                                            ![i].out = out]
                /\ UNCHANGED response
           ELSE /\ cycles' = Without(cycles, i)
                /\ response' = out
    /\ UNCHANGED <<genFile, priceFile, pc, initial_gen_df, initial_price_df,
                   tab, request, loaded, host, shown, interactions>>

AggregateStep == \E i \in 1..Len(cycles) : Aggregate(i)

\* return fig, html.Div(...): the two outputs replace the displayed ones
Return(i) ==
    /\ cycles[i].pos = "return"
    /\ response' = cycles[i].out
    /\ shown' = [id |-> cycles[i].id, fn |-> cycles[i].fn,
                 selected |-> cycles[i].selected,
                 start_date |-> cycles[i].start_date,
                 end_date |-> cycles[i].end_date,
                 file |-> cycles[i].file]
    /\ cycles' = Without(cycles, i)
    /\ UNCHANGED <<genFile, priceFile, pc, initial_gen_df, initial_price_df,
                   tab, request, loaded, host, interactions>>

ReturnStep == \E i \in 1..Len(cycles) : Return(i)

\* the generation file on disk is replaced by another export
ReplaceGenerationFile ==
    /\ pc = "serving"
    /\ tab = "tab-1"
    /\ genFile' \in GenerationExports \ {genFile}
    /\ UNCHANGED <<priceFile, pc, initial_gen_df, initial_price_df, tab,
                   request, response, loaded>>
    /\ UNCHANGED hostVars

\* the price file on disk is replaced by another export
ReplacePriceFile ==
    /\ pc = "serving"
    /\ tab = "tab-2"
    /\ priceFile' \in PriceExports \ {priceFile}
    /\ UNCHANGED <<genFile, pc, initial_gen_df, initial_price_df, tab,
                   request, response, loaded>>
    /\ UNCHANGED hostVars

\* a serial server whose files change between and during the invocations
InitReload == InitHost /\ host = "serial"

NextReload ==
    \/ Boot \/ OpenTab \/ Interact
    \/ LoadStep \/ FilterStep \/ AggregateStep \/ ReturnStep
    \/ ReplaceGenerationFile \/ ReplacePriceFile

SpecReload == InitReload /\ [][NextReload]_vars

\* a serial or a threaded server over unchanged files
NextHost ==
    \/ Boot \/ OpenTab \/ Interact
    \/ LoadStep \/ FilterStep \/ AggregateStep \/ ReturnStep

SpecHost == InitHost /\ [][NextHost]_vars

---------------------------------------------------------------------------
(* Claims about the loaders, checked under SpecLoad *)

\* the cell pd.read_csv made of the raw field, before any normalisation
ReadOf(p) == ReadCsv(LoadedFile).cols[p.k].data[p.i]

\* the text without its trailing spaces
RECURSIVE RStrip(_)
RStrip(s) ==
    IF s # <<>> /\ s[Len(s)] = " " THEN RStrip(Take(s, Len(s) - 1)) ELSE s

\* the text before the first '[', right-trimmed; the text itself without '['
ExpectedName(h) ==
    IF Contains(h, "[") THEN RStrip(Take(h, Find(h, <<"[">>) - 1)) ELSE h

\* the text with every c removed
WithoutChar(s, c) == SelectSeq(s, LAMBDA x : x # c)

\* the text with every comma turned into a point
WithPoints(s) == [i \in 1..Len(s) |-> IF s[i] = "," THEN "." ELSE s[i]]

\* the text the missing-value rule leaves
Unmarked(s) == IF s = Marker THEN <<"0">> ELSE s

Grouped1234 == <<"1", ",", "2", "3", "4">>

Pointed1234 == <<"1", ".", "2", "3", "4">>

Price4567 == <<"4", "5", ",", "6", "7">>

NegativePrice == <<"-", "5", ",", "3">>

\* C2: in every table a loader returns without error, every value of every
\* non-date column is a number; no text survives (neither a raw field nor
\* the text '0' put for the marker), whatever the mix of textual, numeric
\* and missing fields, also when the first row of a price column is not
\* textual and later rows are.  (A column pd.read_csv typed int64 counts as
\* numeric here: the statement fails on text alone.)
C2_NoTextSurvives ==
    Returned => \A p \in LoadedCells : IsFloat(CellOf(p)) \/ CellOf(p).kind = "int"

\* C3: in both loaders the cleaned name of a header with '[' is the text
\* before the first '[' without trailing whitespace, however many spaces
\* precede the '['; a header without '[' is unchanged.
C3_HeaderCleanup ==
    Returned =>
        \A k \in 1..Len(LoadedFile.cols) :
            loaded.res.val.cols[k].name = ExpectedName(LoadedFile.cols[k].header)

C5_MarkerRule ==
    Returned =>
        \A p \in LoadedCells :
            /\ RawOf(p) = Marker => CellOf(p) = Float(0)
            /\ (loaded.fn = "load_price_data" /\ RawOf(p) = NegativePrice) =>
                 CellOf(p) = Float(0 - (53 * Scale) \div 10)
            /\ (RawOf(p) # Marker /\ Contains(RawOf(p), "-")) =>
                 /\ CellOf(p).kind \in {"float", "int"}
                 /\ CellOf(p).v < 0

\* C6: the price normaliser turns the comma of every textual field into a
\* decimal point before the conversion, so "45,67" becomes 45.67, and
\* passes a value that is already numeric through unchanged.
C6_DecimalComma ==
    (Returned /\ loaded.fn = "load_price_data") =>
        \A p \in LoadedCells :
            /\ (/\ ReadOf(p).kind = "str"
                /\ ValidFloat(WithPoints(Unmarked(RawOf(p))))) =>
                 CellOf(p) = Float(ToFloat(WithPoints(Unmarked(RawOf(p)))))
            /\ RawOf(p) = Price4567 => CellOf(p) = Float((4567 * Scale) \div 100)
            /\ ReadOf(p).kind \in {"int", "float"} => CellOf(p) = ReadOf(p)

\* C10: a load of either file fails with the missing-column error whenever
\* 'Start date' or 'End date' is absent from the header, and returns no
\* table.
C10_DateColumnsRequired ==
    (loaded.fn # "none" /\ (~LoadedFile.hasStart \/ ~LoadedFile.hasEnd)) =>
        (~loaded.res.ok /\ loaded.res.err = "KeyError")

\* the text a loader hands to the conversion: the marker replaced by '0',
\* then commas removed (generation) or turned into points (price)
Substituted(fn, raw) ==
    IF fn = "load_generation_data"
    THEN WithoutChar(Unmarked(raw), ",")
    ELSE WithPoints(Unmarked(raw))

\* the non-date fields of the loaded file that are not valid real numbers
\* after the substitutions
MalformedFields ==
    { p \in LoadedCells : ~ValidFloat(Substituted(loaded.fn, RawOf(p))) }

\* C11: a load of a file that has its date columns and at least one row
\* fails exactly when some non-date field is not a valid real number after
\* the marker and separator substitutions: a malformed field always aborts
\* the load (here: with whatever exception), and a load whose fields are all
\* valid numbers (a column of plain numbers included) returns its table.
C11_ParseErrorExactly ==
    (/\ loaded.fn # "none"
     /\ LoadedFile.hasStart /\ LoadedFile.hasEnd
     /\ Len(LoadedFile.days) > 0) =>
        (loaded.res.ok <=> MalformedFields = {})

---------------------------------------------------------------------------
(* Claims about the callbacks, checked under Spec *)

Called == request.fn # "none" /\ response # NoResponse

Answered == Called /\ response.ok

RequestFile ==
    IF request.fn = "update_generation_graph" THEN genFile ELSE priceFile

InRange(d) == request.start_date <= d /\ d <= request.end_date

\* the rows of the file whose start day lies in the requested range
RowsInRange ==
    { i \in 1..Len(RequestFile.days) : InRange(RequestFile.days[i]) }

\* the rows in range, in the order of the file
RowSeqInRange ==
    SelectSeq([i \in 1..Len(RequestFile.days) |-> i],
              LAMBDA i : InRange(RequestFile.days[i]))

\* the table the loader makes of the requested file
RequestTable ==
    IF request.fn = "update_generation_graph"
    THEN load_generation_data(genFile).val
    ELSE load_price_data(priceFile).val

\* the column of the file that the name selects
FileColumn(name) ==
    CHOOSE k \in 1..Len(RequestFile.cols) :
        ExpectedName(RequestFile.cols[k].header) = name

\* the value a generation field stands for: the marker is 0, commas group
GenerationValue(raw) == ToFloat(WithoutChar(Unmarked(raw), ","))

\* sum of the second components of a set of pairs
RECURSIVE PairSum(_)
PairSum(S) ==
    IF S = {} THEN 0
    ELSE LET x == CHOOSE x \in S : TRUE
         IN  x[2] + PairSum(S \ {x})

\* C1: summarising prices over an empty filtered table (no row in the date
\* range, as with start > end) fails for every selected category instead of
\* returning NaN statistics.
C1_EmptyRangeFails ==
    (/\ Called
     /\ request.fn = "update_price_graph"
     /\ request.selected # <<>>
     /\ RowsInRange = {}) => ~response.ok

\* C7: in both callbacks the filtered table holds exactly the rows with
\* start <= t <= end, in their original order; a range with start = end on
\* a loaded day gives that one row, a range with start > end gives no row
\* and no error, and days outside the loaded data are simply absent.
C7_DateFilter ==
    Called =>
        /\ response.ok
        /\ LET f == response.val.df_filtered
           IN  /\ f.start = [j \in 1..Len(RowSeqInRange) |->
                                RequestFile.days[RowSeqInRange[j]]]
               /\ Len(f.cols) = Len(RequestTable.cols)
               /\ \A k \in 1..Len(f.cols) :
                     /\ f.cols[k].name = RequestTable.cols[k].name
                     /\ f.cols[k].data =
                          [j \in 1..Len(RowSeqInRange) |->
                              RequestTable.cols[k].data[RowSeqInRange[j]]]
               /\ request.start_date > request.end_date => Len(f.start) = 0
               /\ (/\ request.start_date = request.end_date
                   /\ request.start_date \in Range(RequestFile.days))
                    => f.start = <<request.start_date>>

\* C7 witness: a callback filtered to a single loaded day, start = end.
C7_Witness ==
    /\ Answered
    /\ request.start_date = request.end_date
    /\ Len(response.val.df_filtered.start) = 1
    /\ Len(RequestFile.days) > 1

C9_GenerationTotals ==
    (Called /\ request.fn = "update_generation_graph") =>
        /\ response.ok
        /\ Len(response.val.stats) = Len(request.selected)
        /\ response.val.df_filtered.start =
              [j \in 1..Len(RowSeqInRange) |->
                  RequestFile.days[RowSeqInRange[j]]]
        /\ \A j \in 1..Len(request.selected) :
              LET st  == response.val.stats[j]
                  raw == RequestFile.cols[FileColumn(request.selected[j])].data
              IN  /\ st.name = request.selected[j]
                  /\ st.total =
                       Float(PairSum({ <<i, GenerationValue(raw[i])>> :
                                         i \in RowsInRange }))

\* C9 witness: totals were returned for both sources over at least two rows,
\* one of them read from a field with a thousands separator.
C9_Witness ==
    /\ Answered
    /\ request.fn = "update_generation_graph"
    /\ Len(request.selected) = 2
    /\ Cardinality(RowsInRange) >= 2
    /\ \E i \in RowsInRange : RequestFile.cols[1].data[i] = Grouped1234
    /\ response.val.stats[1].total.v > 1234 * Scale

---------------------------------------------------------------------------
(* Claims about the recomputation cycle, checked under SpecReload and
   SpecHost *)

\* the days of a file that lie in the range, in the order of the file
DaysInRange(file, start_date, end_date) ==
    SelectSeq(file.days, LAMBDA d : start_date <= d /\ d <= end_date)

\* the table a callback's loader makes of a file content
TableOf(fn, file) ==
    IF fn = "update_generation_graph" THEN load_generation_data(file)
    ELSE load_price_data(file)

\* what a callback run in one piece returns for a file content and inputs
Recomputed(fn, file, selected, start_date, end_date) ==
    IF fn = "update_generation_graph"
    THEN update_generation_graph(file, selected, start_date, end_date)
    ELSE update_price_graph(file, selected, start_date, end_date)

\* the statement after each statement of a callback
NextPos(pos) ==
    CASE pos = "load" -> "filter"
      [] pos = "filter" -> "aggregate"
      [] pos = "aggregate" -> "return"
      [] OTHER -> "done"

\* every invocation in progress works on the table its own load made of the
\* file it read, and the displayed outputs were made the same way
FreshTable ==
    /\ \A i \in 1..Len(cycles) :
          LET c == cycles[i]
          IN  /\ c.pos \in {"filter", "aggregate", "return"} =>
                    /\ c.df = TableOf(c.fn, c.file)
                    /\ c.df.ok /\ c.df.val.start = c.file.days
              /\ c.pos \in {"aggregate", "return"} =>
                    /\ c.df_filtered.start =
                         DaysInRange(c.file, c.start_date, c.end_date)
                    /\ c.df_filtered =
                         Loc(c.df.val,
                             DateMask(c.df.val, c.start_date, c.end_date))
              /\ c.pos = "return" =>
                    c.out = Recomputed(c.fn, c.file, c.selected,
                                       c.start_date, c.end_date)
    /\ (shown.id # 0 /\ response.ok) =>
          /\ response.val.df = TableOf(shown.fn, shown.file).val
          /\ response.val.df.start = shown.file.days
          /\ response.val.df_filtered.start =
               DaysInRange(shown.file, shown.start_date, shown.end_date)
          /\ response = Recomputed(shown.fn, shown.file, shown.selected,
                                   shown.start_date, shown.end_date)

\* an invocation goes through load, filter, aggregate and return in that
\* order, and the displayed outputs change only when an invocation returns
InOrder ==
    /\ \A i \in 1..Len(cycles) : \A j \in 1..Len(cycles') :
          cycles[i].id = cycles'[j].id =>
              cycles'[j].pos \in {cycles[i].pos, NextPos(cycles[i].pos)}
    /\ \A j \in 1..Len(cycles') :
          (\A i \in 1..Len(cycles) : cycles[i].id # cycles'[j].id) =>
              cycles'[j].pos = "load"
    /\ shown' # shown =>
          \E i \in 1..Len(cycles) :
              /\ cycles[i].pos = "return"
              /\ shown'.id = cycles[i].id
              /\ response' = cycles[i].out
              /\ \A j \in 1..Len(cycles') : cycles'[j].id # cycles[i].id

\* a cycle with the inputs and the file content of the one displayed before
\* it displays the same outputs
SameAgain ==
    (/\ shown'.id # shown.id
     /\ shown.id # 0 /\ response.ok
     /\ [shown' EXCEPT !.id = 0] = [shown EXCEPT !.id = 0]) =>
        response' = response

\* C12: every cycle loads, then filters, then aggregates, then returns its
\* outputs for display, and it filters the table it loaded itself from the
\* file as it was at its own load, never the startup table or the table of
\* an earlier cycle; two cycles with the same inputs over the same file
\* content give identical tables and outputs.
C12_FreshLoadEveryCycle ==
    /\ []FreshTable
    /\ [][InOrder /\ SameAgain]_vars

\* C12 witness: the second cycle has returned, its outputs are displayed,
\* and it read a file that had been replaced since the startup load, with
\* rows in the range.
C12_Witness ==
    /\ shown.id = 2 /\ response.ok
    /\ cycles = <<>>
    /\ shown.file # <<>>
    /\ TableOf(shown.fn, shown.file) #
         (IF shown.fn = "update_generation_graph" THEN initial_gen_df
          ELSE initial_price_df)
    /\ response.val.df_filtered.start # <<>>
    /\ response.val.df_filtered.start # response.val.df.start

\* every invocation has returned
Settled == cycles = <<>> /\ interactions > 0

\* the displayed outputs are those of the latest interaction, computed from
\* its date range and selection
ShowsLatest ==
    /\ shown.id = interactions
    /\ shown.fn = request.fn
    /\ shown.selected = request.selected
    /\ shown.start_date = request.start_date
    /\ shown.end_date = request.end_date
    /\ response = Recomputed(request.fn, CycleFile(request.fn),
                             request.selected, request.start_date,
                             request.end_date)

\* the card of the summary that belongs to a trace of the chart, computed
\* from the points of the trace
CardOf(fn, trace) ==
    IF fn = "update_generation_graph"
    THEN [name |-> trace.name, total |-> SeriesSum(trace.y).val]
    ELSE [name |-> trace.name, avg |-> SeriesMean(trace.y).val,
          max |-> SeriesMax(trace.y).val, min |-> SeriesMin(trace.y).val]

\* the displayed chart and summary come from one filtered table: a trace
\* and a card for each selected category, in the order selected, the trace
\* over the filtered rows and the card computed from the trace's points
ChartMatchesSummary ==
    (shown.id # 0 /\ response.ok) =>
        LET v == response.val
        IN  /\ Len(v.fig) = Len(shown.selected)
            /\ Len(v.stats) = Len(shown.selected)
            /\ v.df_filtered.start =
                 DaysInRange(shown.file, shown.start_date, shown.end_date)
            /\ \A j \in 1..Len(shown.selected) :
                  /\ v.fig[j].name = shown.selected[j]
                  /\ v.fig[j].x = v.df_filtered.start
                  /\ v.fig[j].y = Series(v.df_filtered, shown.selected[j])
                  /\ v.stats[j] = CardOf(shown.fn, v.fig[j])

\* C13: on a server that runs the invocations one at a time, whenever an
\* invocation has returned, the chart and the summary displayed are the ones
\* computed from the date range and the selection of the latest interaction
\* of the tab; on either server the displayed chart and summary come from
\* the same filtered table.  (That a threaded server can end with the
\* outputs of an older interaction displayed is the state C13_Witness.)
C13_LastWriteWins ==
    /\ (host = "serial" /\ Settled) => ShowsLatest
    /\ ChartMatchesSummary

\* C13 witness: on the threaded server two invocations overlapped, both
\* have returned, and the outputs displayed are those of the older
\* interaction, not the ones of the latest inputs.
C13_Witness ==
    /\ host = "threaded"
    /\ Settled
    /\ shown.id # 0 /\ shown.id < interactions
    /\ response.ok
    /\ response # Recomputed(request.fn, CycleFile(request.fn),
                             request.selected, request.start_date,
                             request.end_date)
    /\ response.val.df_filtered.start # <<>>

=============================================================================
